---- MODULE Spec2Model ----
(***************************************************************************)
(* Model of the IMQClient call-correlation engine and client lifecycle     *)
(* (src/src/IMQClient.ts).                                                 *)
(*                                                                         *)
(* One client object is modelled together with the transport handle it     *)
(* owns (this.imq).  The transport is external: the model only fixes what  *)
(* the client code hands to it and the points at which the transport may   *)
(* call back into the client (the awaited send returning or throwing, the  *)
(* delivery-failure callback, an inbound 'message' event).                 *)
(***************************************************************************)
EXTENDS Integers, Sequences, FiniteSets, TLC

\* ---- bounds ----
MaxCalls == 2
MaxStarts == 2
MaxDestroys == 2
MaxObservers == 2

\* ---- value domains ----
Calls == 1 .. MaxCalls
ForeignId == 0
Ids == 0 .. MaxCalls
ObserverIds == 1 .. MaxObservers
Methods == {"m1", "m2"}
Null == "null"
DataValues == {"d1", "d2"}
ErrorValues == {Null, "e1"}
Pending == [kind |-> "pending", value |-> Null]
SendError == "sendError"
DeliveryError == "deliveryError"
NoEmit == [name |-> Null, payload |-> Null, invoked |-> {}]
\* no delay has been handed to imq.send yet
Unsent == [k |-> "unsent", v |-> 0]

\* IMQRPCResponse: to is the correlation key, request.method the method of
\* the request the response answers.
Messages == [to : Ids, method : Methods, data : DataValues, error : ErrorValues]

\* the method the stub behind call c passes to remoteCall
MethodOf(c) == IF c = 1 THEN "m1" ELSE "m2"

VARIABLES
    state,          \* lifecycle of the transport handle as driven by start/stop/destroy
    handlers,       \* number of 'message' listeners attached to this.imq
    nextId,         \* next correlation id the transport issues
    resolvers,      \* this.resolvers: set of <<id, call>> entries
    pc,             \* per call: position inside remoteCall
    cid,            \* per call: id issued by the transport's send
    outcome,        \* per call: state of the promise returned by remoteCall
    settles,        \* per call: resolve/reject invocations made by the message handler
    failCb,         \* per call: the delivery-failure callback has been invoked
    answered,       \* ids for which a response has been handled
    observers,      \* EventEmitter listeners of the client: <<observer, event name>>
    emitted,        \* the this.emit(name, payload) made by the current step, if any
    threw,          \* the message handler run by the current step raised a TypeError
    subscribed,     \* broadcast subscription of the transport handle
    pidHeld,        \* the process-local id from pid(baseName) is still registered
    destroyCalls,   \* invocations of destroy() (each begins with imq.unsubscribe())
    destroying,     \* destroy() invocations suspended at `await this.imq.unsubscribe()`
    releases,       \* forgetPid calls
    imqDestroys,    \* this.imq.destroy() calls
    acrossStop,     \* ids that were registered in this.resolvers when stop() ran
    alive,          \* the process has not exited
    exitTimers,     \* setTimeout(() => process.exit(0), 1000) timers scheduled
    terminating,    \* terminate handlers suspended at `await this.destroy()`
    fpc,            \* getDescription: position of the promise executor
    timer,          \* getDescription: state of the timeout timer
    tpc,            \* getDescription: position of the timeout callback
    fetchResult,    \* getDescription: state of the returned promise
    fname,          \* getDescription: the service name it was called with
    ctorThrew,      \* the constructor raised its TypeError
    hooks,          \* the signal and exit listeners are installed on process
    callArgs,       \* arguments a stub passes to remoteCall (method name last)
    sentDelay,      \* delay remoteCall handed to imq.send
    desc,           \* description.service.methods, in key order, as the generator holds it
    descFetched,    \* description.service.methods as getDescription returned it
    generated       \* signatures emitted by the generator runs so far

callVars == <<nextId, resolvers, pc, cid, outcome, settles, failCb, answered>>
lifeVars == <<state, handlers, subscribed, pidHeld, destroyCalls, destroying,
              releases, imqDestroys>>
procVars == <<alive, exitTimers, terminating>>
fetchVars == <<fpc, timer, tpc, fetchResult, fname>>
ctorVars == <<ctorThrew, hooks>>
delayVars == <<callArgs, sentDelay>>
genVars == <<desc, descFetched, generated>>
extVars == <<procVars, fetchVars, ctorVars, delayVars, genVars>>
vars == <<state, handlers, nextId, resolvers, pc, cid, outcome, settles,
          failCb, answered, observers, emitted, threw, subscribed, pidHeld,
          destroyCalls, destroying, releases, imqDestroys, acrossStop,
          extVars>>

\* a step that runs no message handler emits nothing and raises nothing
Quiet == emitted' = NoEmit /\ threw' = FALSE

\* ---- helpers ----

\* JavaScript truthiness of an error payload (IMQRPCError | null)
Truthy(v) == v # Null

\* keys of this.resolvers
Keys(rs) == {p[1] : p \in rs}

\* faulty lookup: takes the pair of whichever call is registered
LookupAny(rs, id) == CHOOSE c \in Calls : \E p \in rs : p[2] = c

\* this.resolvers[id] (a call's [resolve, reject] pair), for id \in Keys(rs)
Lookup(rs, id) == CHOOSE c \in Calls : <<id, c>> \in rs

\* this.resolvers[id] = [resolve, reject]
Store(rs, id, c) == {p \in rs : p[1] # id} \cup {<<id, c>>}

\* faulty delete: the entry is left in place
DeleteResolverKeeps(rs, id) == rs

\* delete this.resolvers[id]
DeleteResolver(rs, id) == {p \in rs : p[1] # id}

\* a promise settles at most once: later resolve/reject calls are ignored
Settle(o, kind, v) == IF o = Pending THEN [kind |-> kind, value |-> v] ELSE o

\* faulty reject: fails every call of the client
RejectEveryCall(out, c, err) == [a \in Calls |-> Settle(out[a], "rejected", err)]

\* reject(err) of the call that issued the send
RejectCall(out, c, err) == [out EXCEPT ![c] = Settle(out[c], "rejected", err)]

\* faulty settlement: looks at the data before the error
SettlementDataFirst(msg) ==
    IF Truthy(msg.data)
    THEN [kind |-> "resolved", value |-> msg.data]
    ELSE [kind |-> "rejected", value |-> msg.error]

\* the callback the handler invokes for a matched response, and its argument
Settlement(msg) ==
    IF Truthy(msg.error)
    THEN [kind |-> "rejected", value |-> msg.error]
    ELSE [kind |-> "resolved", value |-> msg.data]

\* faulty event name: a fixed fallback name instead of the request's method
EventNameFallback(msg) == "m1"

\* event name of an unmatched response
EventName(msg) == msg.method

\* EventEmitter.emit(name, ...): the listeners registered under name
Listeners(obs, name) == {p[1] : p \in {q \in obs : q[2] = name}}

\* this.emit(message.request.method, message)
Emission(obs, msg) ==
    [name |-> EventName(msg), payload |-> msg,
     invoked |-> Listeners(obs, EventName(msg))]

\* the fields and collaborators of a client, apart from what the constructor acquires
InitFields ==
    /\ handlers = 0
    /\ nextId = 1
    /\ resolvers = {}
    /\ pc = [c \in Calls |-> "idle"]
    /\ cid = [c \in Calls |-> ForeignId]
    /\ outcome = [c \in Calls |-> Pending]
    /\ settles = [c \in Calls |-> 0]
    /\ failCb = [c \in Calls |-> FALSE]
    /\ answered = {}
    /\ observers = {}
    /\ emitted = NoEmit
    /\ threw = FALSE
    /\ subscribed = FALSE
    /\ destroyCalls = 0
    /\ destroying = 0
    /\ releases = 0
    /\ imqDestroys = 0
    /\ acrossStop = {}

\* a constructed client: pid(baseName) acquired, IMQ.create(...) done, the
\* signal and exit listeners installed
InitConstructed ==
    /\ state = "Created"
    /\ pidHeld = TRUE
    /\ hooks = TRUE
    /\ ctorThrew = FALSE

InitClient == InitFields /\ InitConstructed

\* no signal has been raised
InitProc == alive = TRUE /\ exitTimers = 0 /\ terminating = 0

\* no description fetch is under way
InitFetch ==
    /\ fpc = "idle"
    /\ timer = "unset"
    /\ tpc = "idle"
    /\ fetchResult = Pending
    /\ fname = Null

\* no stub call with arguments has been made
InitNoArgs == callArgs = << >> /\ sentDelay = Unsent

\* no description has been fetched
InitNoDesc == desc = << >> /\ descFetched = << >> /\ generated = << >>

Init == InitClient /\ InitProc /\ InitFetch /\ InitNoArgs /\ InitNoDesc

\* ---- constructor ----

ClassNames == {"IMQClient", "GeneratorClient", "UserClient"}

\* faulty constructor: acquires the process identity before the abstract check
CtorReachesPidFirst(cls, step) == step = "pid" \/ cls # "IMQClient"

\* whether the constructor, run for class cls, gets to a step that follows
\* `if (this.constructor.name === 'IMQClient') throw new TypeError(...)`
CtorReaches(cls, step) == cls # "IMQClient"

\* nothing has been constructed yet
InitCtor ==
    /\ InitFields /\ InitProc /\ InitFetch /\ InitNoArgs /\ InitNoDesc
    /\ state = "None"
    /\ pidHeld = FALSE
    /\ hooks = FALSE
    /\ ctorThrew = FALSE

\* new cls(options, serviceName, name)
Construct(cls) ==
    /\ state = "None"
    /\ ~ctorThrew
    /\ pidHeld' = CtorReaches(cls, "pid")
    /\ state' = IF CtorReaches(cls, "imq") THEN "Created" ELSE state
    /\ hooks' = CtorReaches(cls, "hooks")
    /\ ctorThrew' = (cls = "IMQClient")
    /\ UNCHANGED <<handlers, subscribed, destroyCalls, destroying, releases,
                   imqDestroys, observers>>
    /\ UNCHANGED callVars
    /\ Quiet
    /\ UNCHANGED <<acrossStop, procVars, fetchVars, delayVars, genVars>>

\* ---- remoteCall ----

\* remoteCall up to `await this.imq.send(to, message, delay, reject)`: the
\* request is handed to the transport, which issues the correlation id.
\* Calls are numbered in the order they are dispatched.
DispatchEffect(c) ==
    /\ pc[c] = "idle"
    /\ c = nextId
    /\ pc' = [pc EXCEPT ![c] = "sending"]
    /\ cid' = [cid EXCEPT ![c] = nextId]
    /\ nextId' = nextId + 1
    /\ UNCHANGED <<resolvers, outcome, settles, failCb, answered>>

\* a stub calls remoteCall; the delay it computes is not followed here
Dispatch(c) ==
    /\ DispatchEffect(c)
    /\ UNCHANGED observers
    /\ UNCHANGED lifeVars
    /\ Quiet
    /\ UNCHANGED <<acrossStop, extVars>>

\* the awaited send returns the id: this.resolvers[id] = [resolve, reject]
SendReturns(c) ==
    /\ pc[c] = "sending"
    /\ pc' = [pc EXCEPT ![c] = "stored"]
    /\ resolvers' = Store(resolvers, cid[c], c)
    /\ UNCHANGED <<nextId, cid, outcome, settles, failCb, answered, observers>>
    /\ UNCHANGED lifeVars
    /\ Quiet
    /\ UNCHANGED <<acrossStop, extVars>>

\* the awaited send throws: catch (err) { reject(err) }
SendThrows(c) ==
    /\ pc[c] = "sending"
    /\ pc' = [pc EXCEPT ![c] = "failed"]
    /\ outcome' = RejectCall(outcome, c, SendError)
    /\ UNCHANGED <<nextId, resolvers, cid, settles, failCb, answered, observers>>
    /\ UNCHANGED lifeVars
    /\ Quiet
    /\ UNCHANGED <<acrossStop, extVars>>

\* the transport invokes the delivery-failure callback handed to send (reject)
DeliveryFails(c) ==
    /\ pc[c] \in {"sending", "stored"}
    /\ ~failCb[c]
    /\ failCb' = [failCb EXCEPT ![c] = TRUE]
    /\ outcome' = RejectCall(outcome, c, DeliveryError)
    /\ UNCHANGED <<nextId, resolvers, pc, cid, settles, answered, observers>>
    /\ UNCHANGED lifeVars
    /\ Quiet
    /\ UNCHANGED <<acrossStop, extVars>>

\* ---- inbound messages ----

\* a response the transport can deliver: addressed to an id it has issued
\* (echoing that request's method) or to an id of some other producer
Deliverable(msg) ==
    \/ msg.to = ForeignId
    \/ \E c \in Calls : pc[c] # "idle" /\ cid[c] = msg.to
                        /\ MethodOf(c) = msg.method

\* imq emits 'message': the listeners attached by start() run in order; a
\* listener that throws ends the emit.  The first listener settles a matched
\* response and deletes its entry; a listener that finds no entry emits the
\* relay event and then fails destructuring this.resolvers[message.to].
OnMessage(msg) ==
    /\ state = "Started"
    /\ handlers >= 1
    /\ Deliverable(msg)
    /\ answered' = answered \cup {msg.to}
    /\ IF msg.to \in Keys(resolvers)
       THEN LET c == Lookup(resolvers, msg.to)
                s == Settlement(msg)
            IN  /\ resolvers' = DeleteResolver(resolvers, msg.to)
                /\ outcome' = [outcome EXCEPT ![c] = Settle(@, s.kind, s.value)]
                /\ settles' = [settles EXCEPT ![c] = @ + 1]
                /\ IF handlers >= 2
                   THEN /\ emitted' = Emission(observers, msg)
                        /\ threw' = TRUE
                   ELSE Quiet
       ELSE /\ emitted' = Emission(observers, msg)
            /\ threw' = TRUE
            /\ UNCHANGED <<resolvers, outcome, settles>>
    /\ UNCHANGED <<nextId, pc, cid, failCb, observers>>
    /\ UNCHANGED lifeVars
    /\ UNCHANGED <<acrossStop, extVars>>

\* ---- observers and broadcast channel ----

\* client.on(name, listener)
On(o, name) ==
    /\ <<o, name>> \notin observers
    /\ observers' = observers \cup {<<o, name>>}
    /\ UNCHANGED callVars
    /\ UNCHANGED lifeVars
    /\ Quiet
    /\ UNCHANGED <<acrossStop, extVars>>

\* subscribe(handler): this.imq.subscribe(this.serviceName, handler)
Subscribe ==
    /\ ~subscribed
    /\ subscribed' = TRUE
    /\ UNCHANGED <<state, handlers, pidHeld, destroyCalls, destroying,
                   releases, imqDestroys, observers>>
    /\ UNCHANGED callVars
    /\ Quiet
    /\ UNCHANGED <<acrossStop, extVars>>

\* unsubscribe(): this.imq.unsubscribe()
Unsubscribe ==
    /\ subscribed
    /\ subscribed' = FALSE
    /\ UNCHANGED <<state, handlers, pidHeld, destroyCalls, destroying,
                   releases, imqDestroys, observers>>
    /\ UNCHANGED callVars
    /\ Quiet
    /\ UNCHANGED <<acrossStop, extVars>>

\* ---- lifecycle ----

\* start(): attach one more 'message' listener, then this.imq.start()
Start ==
    /\ handlers < MaxStarts
    /\ handlers' = handlers + 1
    /\ state' = "Started"
    /\ UNCHANGED <<subscribed, pidHeld, destroyCalls, destroying, releases,
                   imqDestroys, observers>>
    /\ UNCHANGED callVars
    /\ Quiet
    /\ UNCHANGED <<acrossStop, extVars>>

\* faulty stop: also deregisters the process identity
StopReleases ==
    /\ state = "Started"
    /\ state' = "Stopped"
    /\ pidHeld' = FALSE
    /\ releases' = releases + 1
    /\ UNCHANGED <<handlers, subscribed, destroyCalls, destroying,
                   imqDestroys, observers>>
    /\ UNCHANGED callVars
    /\ Quiet
    /\ acrossStop' = acrossStop \cup Keys(resolvers)
    /\ UNCHANGED extVars

\* stop(): this.imq.stop() suspends consumption of a started handle
Stop ==
    /\ state = "Started"
    /\ state' = "Stopped"
    /\ UNCHANGED <<handlers, subscribed, pidHeld, destroyCalls, destroying,
                   releases, imqDestroys, observers>>
    /\ UNCHANGED callVars
    /\ Quiet
    /\ acrossStop' = acrossStop \cup Keys(resolvers)
    /\ UNCHANGED extVars

\* destroy() up to its first suspension: await this.imq.unsubscribe()
DestroyPrefix ==
    /\ destroyCalls' = destroyCalls + 1
    /\ subscribed' = FALSE

\* destroy() resumed: forgetPid(...); this.removeAllListeners();
\* await this.imq.destroy()
DestroySuffix ==
    /\ releases' = releases + 1
    /\ pidHeld' = FALSE
    /\ observers' = {}
    /\ imqDestroys' = imqDestroys + 1
    /\ state' = "Destroyed"

\* destroy() called by the application, up to its first suspension
DestroyBegin ==
    /\ destroyCalls < MaxDestroys
    /\ DestroyPrefix
    /\ destroying' = destroying + 1
    /\ UNCHANGED <<state, handlers, pidHeld, releases, imqDestroys, observers>>
    /\ UNCHANGED callVars
    /\ Quiet
    /\ UNCHANGED <<acrossStop, extVars>>

\* destroy() called by the application, resumed and run to its end
DestroyFinish ==
    /\ destroying > 0
    /\ destroying' = destroying - 1
    /\ DestroySuffix
    /\ UNCHANGED <<handlers, subscribed, destroyCalls>>
    /\ UNCHANGED callVars
    /\ Quiet
    /\ UNCHANGED <<acrossStop, extVars>>

\* ---- termination signals and process exit ----

ServiceNames == {"AlphaService", "BetaService"}

Signals == {"SIGTERM", "SIGINT", "SIGHUP", "SIGBREAK"}

\* a signal listener runs terminate: await this.destroy() begins
Signal(sig) ==
    /\ hooks
    /\ destroyCalls < MaxDestroys
    /\ DestroyPrefix
    /\ terminating' = terminating + 1
    /\ UNCHANGED <<state, handlers, pidHeld, destroying, releases,
                   imqDestroys, observers>>
    /\ UNCHANGED callVars
    /\ Quiet
    /\ UNCHANGED <<acrossStop, alive, exitTimers, fetchVars, ctorVars,
                   delayVars, genVars>>

\* terminate resumed: its destroy() runs to the end, then
\* setTimeout(() => process.exit(0), 1000)
TerminateResume ==
    /\ terminating > 0
    /\ terminating' = terminating - 1
    /\ DestroySuffix
    /\ exitTimers' = exitTimers + 1
    /\ UNCHANGED <<handlers, subscribed, destroyCalls, destroying>>
    /\ UNCHANGED callVars
    /\ Quiet
    /\ UNCHANGED <<acrossStop, alive, fetchVars, ctorVars, delayVars, genVars>>

\* process emits 'exit': the exit listener runs terminate, whose destroy()
\* gets as far as calling this.imq.unsubscribe(); the process ends when the
\* listeners return, so nothing suspended at an await is ever resumed.
ExitEvent ==
    /\ hooks
    /\ destroyCalls < MaxDestroys
    /\ DestroyPrefix
    /\ terminating' = terminating + 1
    /\ alive' = FALSE
    /\ UNCHANGED <<state, handlers, pidHeld, destroying, releases,
                   imqDestroys, observers>>
    /\ UNCHANGED callVars
    /\ Quiet
    /\ UNCHANGED <<acrossStop, fetchVars, ctorVars, delayVars, genVars>>

\* the grace timer fires: process.exit(0), which emits 'exit'
GraceTimerFires ==
    /\ exitTimers > 0
    /\ ExitEvent
    /\ exitTimers' = exitTimers - 1

\* the process exits for another reason, which emits 'exit'
ProcessExit ==
    /\ ExitEvent
    /\ exitTimers' = exitTimers

\* ---- getDescription ----

\* the call the transient client makes for describe()
DescribeCall == 1

\* new EvalError('... Is service "${name}" running?')
TimeoutError(name) == [type |-> "EvalError", service |-> name]

\* getDescription(name, options): the transient GeneratorClient is
\* constructed and client.start() attaches its message listener and awaits
\* this.imq.start()
FetchBegin(name) ==
    /\ fpc = "idle"
    /\ state = "Created"
    /\ handlers = 0
    /\ fpc' = "starting"
    /\ fname' = name
    /\ handlers' = handlers + 1
    /\ UNCHANGED <<state, subscribed, pidHeld, destroyCalls, destroying,
                   releases, imqDestroys, observers>>
    /\ UNCHANGED callVars
    /\ Quiet
    /\ UNCHANGED <<acrossStop, procVars, timer, tpc, fetchResult, ctorVars,
                   delayVars, genVars>>

\* the awaited client.start() rejects: the executor throws, nothing after it runs
FetchStartFails ==
    /\ fpc = "starting"
    /\ fpc' = "aborted"
    /\ UNCHANGED lifeVars
    /\ UNCHANGED callVars
    /\ UNCHANGED observers
    /\ Quiet
    /\ UNCHANGED <<acrossStop, procVars, timer, tpc, fetchResult, fname,
                   ctorVars, delayVars, genVars>>

\* client.start() returned: the timeout timer is set and client.describe()
\* runs remoteCall up to the awaited send
FetchStarted ==
    /\ fpc = "starting"
    /\ fpc' = "describing"
    /\ state' = "Started"
    /\ timer' = "armed"
    /\ DispatchEffect(DescribeCall)
    /\ UNCHANGED observers
    /\ UNCHANGED <<handlers, subscribed, pidHeld, destroyCalls, destroying,
                   releases, imqDestroys>>
    /\ Quiet
    /\ UNCHANGED <<acrossStop, procVars, tpc, fetchResult, fname, ctorVars,
                   delayVars, genVars>>

\* the awaited client.describe() was rejected: the executor throws; the
\* timer stays set
FetchDescribeRejected ==
    /\ fpc = "describing"
    /\ outcome[DescribeCall].kind = "rejected"
    /\ fpc' = "aborted"
    /\ UNCHANGED lifeVars
    /\ UNCHANGED callVars
    /\ UNCHANGED observers
    /\ Quiet
    /\ UNCHANGED <<acrossStop, procVars, timer, tpc, fetchResult, fname,
                   ctorVars, delayVars, genVars>>

\* the awaited client.describe() resolved: clearTimeout(timeout), then
\* await client.destroy() begins
FetchDescribed ==
    /\ fpc = "describing"
    /\ outcome[DescribeCall].kind = "resolved"
    /\ fpc' = "succeeding"
    /\ timer' = IF timer = "armed" THEN "cleared" ELSE timer
    /\ DestroyPrefix
    /\ UNCHANGED <<state, handlers, pidHeld, destroying, releases,
                   imqDestroys, observers>>
    /\ UNCHANGED callVars
    /\ Quiet
    /\ UNCHANGED <<acrossStop, procVars, tpc, fetchResult, fname, ctorVars,
                   delayVars, genVars>>

\* that destroy() has run to its end: resolve(description)
FetchSucceeds ==
    /\ fpc = "succeeding"
    /\ fpc' = "done"
    /\ DestroySuffix
    /\ fetchResult' = Settle(fetchResult, "resolved", outcome[DescribeCall].value)
    /\ UNCHANGED <<handlers, subscribed, destroyCalls, destroying>>
    /\ UNCHANGED callVars
    /\ Quiet
    /\ UNCHANGED <<acrossStop, procVars, timer, tpc, fname, ctorVars,
                   delayVars, genVars>>

\* faulty timeout callback: reports the failure before destroying the client
TimeoutFiresRejectsFirst ==
    /\ timer = "armed"
    /\ ~(fpc = "describing" /\ outcome[DescribeCall] # Pending)
    /\ timer' = "fired"
    /\ tpc' = "destroying"
    /\ fetchResult' = Settle(fetchResult, "rejected", TimeoutError(fname))
    /\ DestroyPrefix
    /\ UNCHANGED <<state, handlers, pidHeld, destroying, releases,
                   imqDestroys, observers>>
    /\ UNCHANGED callVars
    /\ Quiet
    /\ UNCHANGED <<acrossStop, procVars, fpc, fname, ctorVars,
                   delayVars, genVars>>

\* the timeout timer fires: its callback begins await client.destroy().  A
\* timer callback runs only when no continuation of a settled await is
\* queued, so not between the settling of describe() and the executor's
\* resumption.
TimeoutFires ==
    /\ timer = "armed"
    /\ ~(fpc = "describing" /\ outcome[DescribeCall] # Pending)
    /\ timer' = "fired"
    /\ tpc' = "destroying"
    /\ DestroyPrefix
    /\ UNCHANGED <<state, handlers, pidHeld, destroying, releases,
                   imqDestroys, observers>>
    /\ UNCHANGED callVars
    /\ Quiet
    /\ UNCHANGED <<acrossStop, procVars, fpc, fetchResult, fname, ctorVars,
                   delayVars, genVars>>

\* the callback's destroy() has run to its end: clearTimeout(timeout) of the
\* fired timer, then reject(new EvalError(...))
TimeoutRejects ==
    /\ tpc = "destroying"
    /\ tpc' = "done"
    /\ DestroySuffix
    /\ fetchResult' = Settle(fetchResult, "rejected", TimeoutError(fname))
    /\ UNCHANGED <<handlers, subscribed, destroyCalls, destroying>>
    /\ UNCHANGED callVars
    /\ Quiet
    /\ UNCHANGED <<acrossStop, procVars, fpc, timer, fname, ctorVars,
                   delayVars, genVars>>

\* ---- IMQDelay and the delay of a call ----

\* JavaScript numbers: finite integers, Number.MAX_VALUE, NaN, the
\* infinities, and undefined where a number is expected
Fin(n) == [k |-> "fin", v |-> n]
MaxValue == [k |-> "max", v |-> 1]
NaN == [k |-> "nan", v |-> 0]
PosInf == [k |-> "inf", v |-> 1]
NegInf == [k |-> "inf", v |-> -1]
Undefined == [k |-> "undef", v |-> 0]

\* x * scale for a positive integer scale
Times(x, scale) ==
    CASE x.k = "fin" -> Fin(x.v * scale)
      [] x.k = "max" -> IF scale = 1 THEN MaxValue ELSE PosInf
      [] OTHER -> x

\* isFinite(x), isNaN(x), x < 0
IsFinite(x) == x.k \in {"fin", "max"}
IsNaN(x) == x.k \in {"nan", "undef"}
Negative(x) == (x.k = "fin" /\ x.v < 0) \/ x = NegInf

Units == {"ms", "s", "m", "h", "d"}

\* IMQDelay.ms
Ms(d) ==
    CASE d.unit = "ms" -> d.timer
      [] d.unit = "s" -> Times(d.timer, 1000)
      [] d.unit = "m" -> Times(d.timer, 60000)
      [] d.unit = "h" -> Times(d.timer, 3600000)
      [] d.unit = "d" -> Times(d.timer, 86400000)
      [] OTHER -> Undefined

\* faulty check: negative delays pass
ClampKeepsNegative(x) == IF ~IsFinite(x) \/ IsNaN(x) THEN Fin(0) ELSE x

\* if (!isFinite(delay) || isNaN(delay) || delay < 0) delay = 0
Clamp(x) == IF ~IsFinite(x) \/ IsNaN(x) \/ Negative(x) THEN Fin(0) ELSE x

\* arguments of remoteCall: plain values, IMQDelay instances, the method name
Plain == [k |-> "plain"]
MethodArg == [k |-> "method"]
Delay(t, u) == [k |-> "delay", timer |-> t, unit |-> u]

\* remoteCall: method = args.pop(); delay = 0; if the last remaining argument
\* is an IMQDelay, delay = args.pop().ms, checked
DelayOfCall(args) ==
    LET rest == SubSeq(args, 1, Len(args) - 1)
    IN  IF Len(rest) > 0 /\ rest[Len(rest)].k = "delay"
        THEN Clamp(Ms(rest[Len(rest)]))
        ELSE Fin(0)

MaxMagnitude == 5
Magnitudes ==
    {Fin(n) : n \in -MaxMagnitude .. MaxMagnitude}
        \cup {MaxValue, NaN, PosInf, NegInf}
DelaySpecs == {Delay(t, u) : t \in Magnitudes, u \in Units}
ArgLists ==
    {<<MethodArg>>, <<Plain, MethodArg>>}
        \cup {<<d, MethodArg>> : d \in DelaySpecs}
        \cup {<<Plain, d, MethodArg>> : d \in DelaySpecs}
        \cup {<<d, Plain, MethodArg>> : d \in DelaySpecs}

\* a stub is about to call remoteCall with some argument list
InitDelay ==
    /\ InitClient /\ InitProc /\ InitFetch /\ InitNoDesc
    /\ callArgs \in ArgLists
    /\ sentDelay = Unsent

\* remoteCall(...args) up to the awaited this.imq.send(to, message, delay, reject)
CallWithArgs(c) ==
    /\ sentDelay = Unsent
    /\ DispatchEffect(c)
    /\ sentDelay' = DelayOfCall(callArgs)
    /\ UNCHANGED <<callArgs, observers>>
    /\ UNCHANGED lifeVars
    /\ Quiet
    /\ UNCHANGED <<acrossStop, procVars, fetchVars, ctorVars, genVars>>

\* ---- generator ----

MaxMethods == 2
MaxArgs == 2
MaxWrap == 2
MaxRuns == 2

\* type definitions are strings; they are modelled as token sequences
RECURSIVE WrapN(_, _)
WrapN(t, n) == IF n = 0 THEN t ELSE <<"Promise", "<">> \o WrapN(t, n - 1) \o <<">">>

MethodNames == {"describe", "add", "sub"}
NumberArg == [type |-> "number", isOptional |-> FALSE]
\* the argument the generator appends
DelayArg == [type |-> "IMQDelay", isOptional |-> TRUE]
ArgKinds == {NumberArg, DelayArg}
ArgSeqs == UNION {[1 .. n -> ArgKinds] : n \in 0 .. MaxArgs}
RetTypes == {WrapN(<<"number">>, n) : n \in 0 .. MaxWrap} \cup {<<"Promise">>}
MethodEntries == [name : MethodNames, args : ArgSeqs, ret : RetTypes]
Descriptions ==
    {d \in UNION {[1 .. n -> MethodEntries] : n \in 1 .. MaxMethods} :
        \A i, j \in DOMAIN d : d[i].name = d[j].name => i = j}

\* faulty promisedType: wraps whatever it is given
PromisedTypeAlways(typedef) == <<"Promise", "<">> \o typedef \o <<">">>

\* promisedType(typedef): if (!/^Promise</.test(typedef)) wrap it
PromisedType(typedef) ==
    IF Len(typedef) >= 2 /\ typedef[1] = "Promise" /\ typedef[2] = "<"
    THEN typedef
    ELSE <<"Promise", "<">> \o typedef \o <<">">>

\* cleanType(typedef): typedef.replace(/^Promise<([\s\S]+?)>$/, '$1')
CleanType(typedef) ==
    IF /\ Len(typedef) >= 4
       /\ typedef[1] = "Promise" /\ typedef[2] = "<"
       /\ typedef[Len(typedef)] = ">"
    THEN SubSeq(typedef, 3, Len(typedef) - 1)
    ELSE typedef

\* if (retType === 'Promise') retType = 'Promise<any>'
RetType(ret) == IF ret = <<"Promise">> THEN <<"Promise", "<", "any", ">">> ELSE ret

\* if (lastArg && lastArg.type !== 'IMQDelay') args.push({... 'IMQDelay' ...})
PushDelay(args) ==
    IF Len(args) > 0 /\ args[Len(args)].type # "IMQDelay"
    THEN Append(args, DelayArg)
    ELSE args

\* the method emitted for one entry: its parameters, return type and the
\* type argument of this.remoteCall<...>
Signature(m) ==
    [name |-> m.name,
     params |-> PushDelay(m.args),
     ret |-> PromisedType(RetType(m.ret)),
     typeArg |-> CleanType(RetType(m.ret))]

\* the loop over Object.keys(methods): 'describe' is skipped
Emitted(methods) ==
    LET kept == SelectSeq(methods, LAMBDA m : m.name # "describe")
    IN  [i \in 1 .. Len(kept) |-> Signature(kept[i])]

\* what the loop leaves in description.service.methods: args.push works on
\* the description's own argument list
AfterGenerator(methods) ==
    [i \in 1 .. Len(methods) |->
        IF methods[i].name = "describe"
        THEN methods[i]
        ELSE [methods[i] EXCEPT !.args = PushDelay(@)]]

\* a description has been fetched
InitGen ==
    /\ InitClient /\ InitProc /\ InitFetch /\ InitNoArgs
    /\ desc \in Descriptions
    /\ descFetched = desc
    /\ generated = << >>

\* generator(name, options), from the fetched description to the source text
Generate ==
    /\ Len(generated) < MaxRuns
    /\ generated' = Append(generated, Emitted(desc))
    /\ desc' = AfterGenerator(desc)
    /\ UNCHANGED descFetched
    /\ UNCHANGED lifeVars
    /\ UNCHANGED callVars
    /\ UNCHANGED observers
    /\ Quiet
    /\ UNCHANGED <<acrossStop, procVars, fetchVars, ctorVars, delayVars>>

\* ---- specifications ----

\* the correlation engine: calls, transport callbacks, inbound responses
NextRpc ==
    \/ \E c \in Calls : Dispatch(c)
    \/ \E c \in Calls : SendReturns(c)
    \/ \E c \in Calls : SendThrows(c)
    \/ \E c \in Calls : DeliveryFails(c)
    \/ \E msg \in Messages : OnMessage(msg)
    \/ Start
    \/ Stop

SpecRpc == Init /\ [][NextRpc]_vars

\* the event relay: observers, calls and inbound responses
NextRelay ==
    \/ \E c \in Calls : Dispatch(c)
    \/ \E c \in Calls : SendReturns(c)
    \/ \E msg \in Messages : OnMessage(msg)
    \/ \E o \in ObserverIds, name \in Methods : On(o, name)
    \/ Start
    \/ Stop

SpecRelay == Init /\ [][NextRelay]_vars

\* the lifecycle: start, stop, destroy, subscriptions, observers, and calls
\* left pending across them
NextLife ==
    \/ \E c \in Calls : Dispatch(c)
    \/ \E c \in Calls : SendReturns(c)
    \/ \E msg \in Messages : OnMessage(msg)
    \/ \E o \in ObserverIds, name \in Methods : On(o, name)
    \/ Subscribe
    \/ Unsubscribe
    \/ Start
    \/ Stop
    \/ DestroyBegin
    \/ DestroyFinish

SpecLife == Init /\ [][NextLife]_vars

\* signals and exit of a process that holds one client
NextSignal ==
    \/ alive /\ \E sig \in Signals : Signal(sig)
    \/ alive /\ TerminateResume
    \/ alive /\ GraceTimerFires
    \/ alive /\ ProcessExit
    \/ alive /\ \E o \in ObserverIds, name \in Methods : On(o, name)
    \/ alive /\ Subscribe
    \/ alive /\ Unsubscribe
    \/ alive /\ Start
    \/ alive /\ Stop
    \/ alive /\ DestroyBegin
    \/ alive /\ DestroyFinish

SpecSignal == Init /\ [][NextSignal]_vars

\* one description fetch through a transient client
NextFetch ==
    \/ \E name \in ServiceNames : FetchBegin(name)
    \/ FetchStartFails
    \/ FetchStarted
    \/ \E c \in Calls : SendReturns(c)
    \/ \E c \in Calls : SendThrows(c)
    \/ \E c \in Calls : DeliveryFails(c)
    \/ \E msg \in Messages : OnMessage(msg)
    \/ FetchDescribeRejected
    \/ FetchDescribed
    \/ FetchSucceeds
    \/ TimeoutFires
    \/ TimeoutRejects

SpecFetch == Init /\ [][NextFetch]_vars

\* construction of a client, and the life of the constructed object
NextCtor ==
    \/ \E cls \in ClassNames : Construct(cls)
    \/ state # "None" /\ \E o \in ObserverIds, name \in Methods : On(o, name)
    \/ state # "None" /\ Subscribe
    \/ state # "None" /\ Unsubscribe
    \/ state # "None" /\ Start
    \/ state # "None" /\ Stop
    \/ state # "None" /\ DestroyBegin
    \/ state # "None" /\ DestroyFinish

SpecCtor == InitCtor /\ [][NextCtor]_vars

\* one call with an argument list, and the transport's reaction to it
NextDelay ==
    \/ \E c \in Calls : CallWithArgs(c)
    \/ \E c \in Calls : SendReturns(c)
    \/ \E c \in Calls : SendThrows(c)

SpecDelay == InitDelay /\ [][NextDelay]_vars

\* stub synthesis from a fetched description
NextGen == Generate

SpecGen == InitGen /\ [][NextGen]_vars

\* ---- claims: correlation engine (SpecRpc) ----

\* C1: a response whose `to` is the id of a pending entry settles that call
\* exactly once: the handler makes one resolve-or-reject invocation for it,
\* the entry is gone from the registry once the response has been handled,
\* and over the whole run the handler never makes a second invocation for the
\* same call, whatever further responses carry the same id.
C1_SettlesExactlyOnce ==
    /\ [](\A c \in Calls : settles[c] <= 1)
    /\ [][\A msg \in Messages :
            (OnMessage(msg) /\ msg.to \in Keys(resolvers)) =>
                LET c == Lookup(resolvers, msg.to)
                IN  /\ settles'[c] = settles[c] + 1
                    /\ outcome'[c] # Pending
                    /\ msg.to \notin Keys(resolvers')]_vars

\* a call settled by its response, after which a second response with the
\* same id has just been handled (as an unmatched one) by the single handler
C1_Witness ==
    \E c \in Calls :
        /\ pc[c] = "stored"
        /\ settles[c] = 1
        /\ cid[c] \notin Keys(resolvers)
        /\ handlers = 1
        /\ emitted # NoEmit
        /\ emitted.payload.to = cid[c]

\* C2: outstanding calls are independent: handling a response addressed to
\* one call's id leaves every other call's promise, settlement count and
\* registry entry as they were, in whatever order the responses arrive.
C2_CallsIndependent ==
    [][\A msg \in Messages : OnMessage(msg) =>
            \A a \in Calls : cid[a] # msg.to =>
                /\ outcome'[a] = outcome[a]
                /\ settles'[a] = settles[a]
                /\ (<<cid[a], a>> \in resolvers') = (<<cid[a], a>> \in resolvers)]_vars

\* the call dispatched second has been settled by its response while the
\* call dispatched first is still registered and unsettled
C2_Witness ==
    /\ MaxCalls >= 2
    /\ settles[2] = 1
    /\ outcome[2] # Pending
    /\ <<cid[1], 1>> \in resolvers
    /\ outcome[1] = Pending
    /\ settles[1] = 0

\* C3: a call that was handed to the transport and whose matching response
\* has been delivered to the started client is completed, also when the
\* response was delivered before the id was stored: once the send has
\* returned and the response has been handled, the call is settled.
C3_AnsweredCallCompletes ==
    \A c \in Calls :
        (pc[c] = "stored" /\ cid[c] \in answered) => outcome[c] # Pending

\* C4: a matched response rejects the call with exactly its error payload
\* when one is present and otherwise resolves it with exactly its data; it
\* makes one invocation only, so it never does both.
C4_ErrorElseData ==
    [][\A msg \in Messages :
            (OnMessage(msg) /\ msg.to \in Keys(resolvers)) =>
                LET c == Lookup(resolvers, msg.to)
                IN  /\ settles'[c] = settles[c] + 1
                    /\ outcome[c] = Pending =>
                          outcome'[c] = IF msg.error # Null
                                        THEN [kind |-> "rejected", value |-> msg.error]
                                        ELSE [kind |-> "resolved", value |-> msg.data]]_vars

\* one call rejected with the error payload of its response, another resolved
\* with the data of its response
C4_Witness ==
    \E c, d \in Calls :
        /\ settles[c] = 1 /\ outcome[c] = [kind |-> "rejected", value |-> "e1"]
        /\ settles[d] = 1 /\ outcome[d] = [kind |-> "resolved", value |-> "d2"]

\* C8: a failure of the transport's send (the awaited send throwing, or the
\* delivery-failure callback) rejects only the call that issued the send:
\* every other call keeps its promise state and position, the registry is
\* unchanged, and the client stays in its lifecycle state with its message
\* handlers attached.
C8_SendFailureIsLocal ==
    [][\A c \in Calls : (SendThrows(c) \/ DeliveryFails(c)) =>
            /\ outcome[c] = Pending => outcome'[c].kind = "rejected"
            /\ \A a \in Calls \ {c} :
                   outcome'[a] = outcome[a] /\ pc'[a] = pc[a]
            /\ resolvers' = resolvers
            /\ state' = state
            /\ handlers' = handlers]_vars

\* the first call was rejected by a send failure and the other call, still
\* registered meanwhile, has been resolved by its response
C8_Witness ==
    /\ MaxCalls >= 2
    /\ outcome[1].kind = "rejected"
    /\ outcome[1].value \in {SendError, DeliveryError}
    /\ settles[2] = 1
    /\ outcome[2].kind = "resolved"
    /\ state = "Started"

\* ---- claims: event relay (SpecRelay) ----

\* C5: a response whose `to` matches no pending entry is not dropped: the
\* handler emits an event named after the request's method with the full
\* response as payload, which invokes every observer registered under that
\* name.
C5_OrphanIsRelayed ==
    [][\A msg \in Messages :
            (OnMessage(msg) /\ msg.to \notin Keys(resolvers)) =>
                emitted' = [name |-> msg.method, payload |-> msg,
                            invoked |-> {o \in ObserverIds :
                                            <<o, msg.method>> \in observers}]]_vars

\* a response of another producer has just been relayed under "m2" to two
\* observers, while an observer of "m1" was not invoked
C5_Witness ==
    /\ emitted # NoEmit
    /\ emitted.payload.to = ForeignId
    /\ emitted.name = "m2"
    /\ Cardinality(emitted.invoked) >= 2
    /\ \E o \in ObserverIds : <<o, "m1">> \in observers

\* C6: an orphan message is not an error: handling a response whose `to`
\* matches no pending entry raises nothing, settles no call and leaves the
\* registry unchanged.
C6_OrphanRaisesNothing ==
    [][\A msg \in Messages :
            (OnMessage(msg) /\ msg.to \notin Keys(resolvers)) =>
                /\ ~threw'
                /\ outcome' = outcome
                /\ settles' = settles
                /\ resolvers' = resolvers]_vars

\* ---- claims: lifecycle (SpecLife) ----

\* C7: a pending entry exists for a stored call until its response arrives
\* or the client is destroyed; once a destroy() has completed the registry
\* holds no entries; the registry never holds two entries for one id.
C7_EntryLifetime ==
    /\ [](\A c \in Calls :
            (pc[c] = "stored" /\ cid[c] \notin answered /\ imqDestroys = 0)
                => <<cid[c], c>> \in resolvers)
    /\ [](\A p, q \in resolvers : p[1] = q[1] => p = q)
    /\ [][DestroyFinish => resolvers' = {}]_vars

\* C9: destroy() is idempotent: a second invocation performs no further
\* identity release or transport destroy, and each invocation leaves the
\* client without broadcast subscription and without observers.
C9_DestroyIdempotent ==
    /\ [](releases <= 1 /\ imqDestroys <= 1)
    /\ [][DestroyBegin => ~subscribed']_vars
    /\ [][DestroyFinish => observers' = {}]_vars

\* C10: destroy() moves the client to Destroyed from any state, and Destroyed
\* is absorbing: no later start(), stop() or destroy() leaves it, no transport
\* start happens and no inbound message is consumed after it.
C10_DestroyedIsAbsorbing ==
    /\ [][DestroyFinish => state' = "Destroyed"]_vars
    /\ [][state = "Destroyed" =>
            (state' = "Destroyed" /\ handlers' = handlers
             /\ answered' = answered)]_vars

\* ---- claims: stop and restart (SpecRelay, SpecRpc) ----

\* C11: stop() only suspends consumption: it leaves the identity registered
\* and the registry and the observers as they were; a start() after it puts
\* the client back to Started with the registry intact, and a call that was
\* registered when stop() ran is then settled by its matching response.
C11_StopOnlySuspends ==
    /\ [][Stop => /\ state' = "Stopped"
                  /\ pidHeld' = pidHeld
                  /\ releases' = releases
                  /\ resolvers' = resolvers
                  /\ observers' = observers]_vars
    /\ [][(Start /\ state = "Stopped") =>
            (state' = "Started" /\ resolvers' = resolvers /\ pidHeld' = pidHeld)]_vars
    /\ [][\A msg \in Messages :
            (OnMessage(msg) /\ msg.to \in acrossStop /\ msg.to \in Keys(resolvers)) =>
                LET c == Lookup(resolvers, msg.to)
                IN  /\ outcome'[c] # Pending
                    /\ settles'[c] = settles[c] + 1
                    /\ msg.to \notin Keys(resolvers')]_vars

\* a call that was registered when stop() ran has been resolved by its
\* response after the client was started again, the identity still held
C11_Witness ==
    \E c \in Calls :
        /\ cid[c] \in acrossStop
        /\ settles[c] = 1
        /\ outcome[c].kind = "resolved"
        /\ state = "Started"
        /\ handlers = 2
        /\ pidHeld

\* C20: after any sequence of start() and stop() exactly one message handler
\* is attached to the transport, so a delivered response is processed once:
\* a response that settles a call is not also relayed as an orphan event.
C20_SingleHandler ==
    /\ [](state \in {"Started", "Stopped"} => handlers = 1)
    /\ [][\A msg \in Messages :
            (OnMessage(msg) /\ msg.to \in Keys(resolvers)) =>
                (emitted' = NoEmit /\ ~threw')]_vars

\* ---- claims: signals (SpecSignal) ----

\* C12: each termination signal runs destroy(), and process termination is
\* scheduled only once that destroy() has completed; the process-exit event
\* runs the same destroy path (identity released, transport destroyed)
\* without scheduling the grace-window termination.
C12_SignalShutdownPath ==
    /\ [][\A sig \in Signals : Signal(sig) => destroyCalls' = destroyCalls + 1]_vars
    /\ [][exitTimers' > exitTimers =>
            (imqDestroys' = imqDestroys + 1 /\ state' = "Destroyed")]_vars
    /\ [][ProcessExit =>
            /\ releases' = releases + 1
            /\ imqDestroys' = imqDestroys + 1
            /\ state' = "Destroyed"
            /\ exitTimers' = exitTimers]_vars

\* ---- claims: description fetch (SpecFetch) ----

\* no step of the fetch remains to be taken
FetchAtRest ==
    /\ fpc \in {"done", "aborted"}
    /\ timer # "armed"
    /\ tpc # "destroying"

\* C13: every description fetch ends in exactly one of success and timeout
\* failure, and by then the transient client has been destroyed, also when
\* the introspection call is rejected or the start of the client fails: once
\* the fetch is at rest its promise is settled and the client is destroyed.
C13_FetchEndsSettled ==
    FetchAtRest =>
        /\ fetchResult # Pending
        /\ state = "Destroyed"
        /\ imqDestroys >= 1
        /\ ~subscribed

\* C14: when the timeout elapses with no response to the description call,
\* the fetch fails with a timeout error naming the target service; whenever
\* that failure is reported the transient client is already destroyed and
\* unsubscribed, and one description call only was made (no retry).
C14_TimeoutFailure ==
    /\ [](fetchResult.kind = "rejected" =>
            /\ fetchResult.value = TimeoutError(fname)
            /\ fname \in ServiceNames
            /\ state = "Destroyed"
            /\ imqDestroys >= 1
            /\ ~subscribed
            /\ nextId <= 2
            /\ handlers <= 1)
    /\ [][(TimeoutRejects /\ fpc = "describing") =>
            fetchResult' = [kind |-> "rejected", value |-> TimeoutError(fname)]]_vars

\* the description call was sent and registered, no response came, and the
\* fetch has failed with the timeout error
C14_Witness ==
    /\ pc[DescribeCall] = "stored"
    /\ outcome[DescribeCall] = Pending
    /\ answered = {}
    /\ fpc = "describing"
    /\ tpc = "done"
    /\ fetchResult = [kind |-> "rejected", value |-> TimeoutError("BetaService")]

\* ---- claims: constructor (SpecCtor) ----

\* C15: instantiating the abstract base class fails in the constructor call
\* itself and has no effect: no process identity is acquired, no transport
\* handle is created and no signal or exit listener is installed.
C15_AbstractCtorFails ==
    /\ [][Construct("IMQClient") =>
            (ctorThrew' /\ ~pidHeld' /\ ~hooks' /\ state' = "None")]_vars
    /\ [](ctorThrew => (~pidHeld /\ ~hooks /\ state = "None"
                        /\ handlers = 0 /\ releases = 0))

\* the base class was instantiated and the constructor threw
C15_Witness == ctorThrew /\ state = "None" /\ ~pidHeld

\* ---- claims: delay (SpecDelay) ----

\* scale of a unit in milliseconds
UnitScale(u) ==
    CASE u = "ms" -> 1 [] u = "s" -> 1000 [] u = "m" -> 60000
      [] u = "h" -> 3600000 [] u = "d" -> 86400000

\* the delay the claim expects for an argument list
ExpectedDelay(args) ==
    IF Len(args) >= 2 /\ args[Len(args) - 1].k = "delay"
    THEN LET d == args[Len(args) - 1]
             p == Times(d.timer, UnitScale(d.unit))
         IN  IF p.k \in {"nan", "inf"} \/ (p.k = "fin" /\ p.v < 0)
             THEN Fin(0)
             ELSE p
    ELSE Fin(0)

\* C16: the delay handed to the transport's send is magnitude x unit-scale of
\* the DelaySpec passed as the last argument, and 0 when the last argument is
\* no DelaySpec or the product is NaN, infinite or negative; it is always a
\* finite number >= 0.
C16_DelayHandedToSend ==
    sentDelay # Unsent =>
        /\ sentDelay = ExpectedDelay(callArgs)
        /\ sentDelay.k \in {"fin", "max"}
        /\ sentDelay.k = "fin" => sentDelay.v >= 0

\* the call remoteCall(x, new IMQDelay(2, 'm'), method) handed 120000 to send
C16_Witness ==
    /\ callArgs = <<Plain, Delay(Fin(2), "m"), MethodArg>>
    /\ sentDelay = Fin(120000)
    /\ pc[1] = "sending"

\* ---- claims: stub synthesis (SpecGen) ----

\* the entries of the fetched description for which a method is emitted
DeclaredKept == SelectSeq(descFetched, LAMBDA m : m.name # "describe")

\* C17: every emitted method, whatever the number of its declared arguments
\* (zero included), ends with exactly one optional delay parameter: one is
\* appended when the last declared argument is no delay, none when it is.
C17_TrailingDelay ==
    Len(generated) >= 1 =>
        \A i \in 1 .. Len(generated[1]) :
            LET sig == generated[1][i]
                decl == DeclaredKept[i].args
                n == Len(sig.params)
            IN  /\ n >= 1
                /\ sig.params[n] = DelayArg
                /\ n = IF Len(decl) > 0 /\ decl[Len(decl)].type = "IMQDelay"
                       THEN Len(decl)
                       ELSE Len(decl) + 1

\* C18 as stated: whatever the number of outer Promise wrappers of the
\* declared return type, the generated return type has exactly one layer,
\* and the type argument of the dispatch is the declared type with its
\* outer wrapper stripped.
C18_AlwaysOneLayer ==
    \A r \in 1 .. Len(generated) : \A i \in 1 .. Len(generated[r]) :
        \A n \in 0 .. MaxWrap :
            DeclaredKept[i].ret = WrapN(<<"number">>, n) =>
                /\ generated[r][i].ret = WrapN(<<"number">>, 1)
                /\ generated[r][i].typeArg =
                       WrapN(<<"number">>, IF n = 0 THEN 0 ELSE n - 1)

\* C18 (amended): a declared return type with no or one outer Promise
\* wrapper is emitted with exactly one layer; a declared type that already
\* has two or more wrappers is emitted as declared; a bare Promise is emitted
\* as Promise<any>. The type argument of the dispatch is the declared type
\* with its single outer wrapper stripped.
C18_OneLayerUnlessNested ==
    \A r \in 1 .. Len(generated) : \A i \in 1 .. Len(generated[r]) :
        /\ \A n \in 0 .. MaxWrap :
              DeclaredKept[i].ret = WrapN(<<"number">>, n) =>
                /\ generated[r][i].ret =
                       WrapN(<<"number">>, IF n = 0 THEN 1 ELSE n)
                /\ generated[r][i].typeArg =
                       WrapN(<<"number">>, IF n = 0 THEN 0 ELSE n - 1)
        /\ DeclaredKept[i].ret = <<"Promise">> =>
              /\ generated[r][i].ret = WrapN(<<"any">>, 1)
              /\ generated[r][i].typeArg = <<"any">>

\* methods were emitted for a declared number, a declared Promise<number>
\* and a declared Promise<Promise<number>>
C18_Witness ==
    /\ Len(generated) >= 1
    /\ Len(generated[1]) = 2
    /\ DeclaredKept[1].ret = WrapN(<<"number">>, 1)
    /\ generated[1][1].ret = WrapN(<<"number">>, 1)
    /\ generated[1][1].typeArg = <<"number">>
    /\ DeclaredKept[2].ret = <<"number">>
    /\ generated[1][2].ret = WrapN(<<"number">>, 1)

\* C19: synthesis is a pure function of the fetched description: it leaves
\* the description as it was fetched, argument lists included, and a second
\* synthesis from it yields the same signatures.
C19_SynthesisIsPure ==
    /\ desc = descFetched
    /\ Len(generated) >= 2 => generated[2] = generated[1]

\* ---- claims: registry, fetch and shutdown bookkeeping ----

\* C21: a call that has been settled, also one rejected through the
\* delivery-failure callback after its correlation id was stored, has no
\* entry in the pending registry: the registry holds unsettled calls only.
C21_RegistryHoldsUnsettledOnly ==
    \A p \in resolvers : outcome[p[2]] = Pending

\* C22: during one description fetch the transient client's destroy() is
\* invoked exactly once, whatever the order of the timeout timer firing and
\* the introspection response arriving, and once the fetch has succeeded the
\* timer no longer fires.
C22_FetchDestroysOnce ==
    /\ destroyCalls <= 1
    /\ fetchResult # Pending => destroyCalls = 1
    /\ fetchResult.kind = "resolved" => timer # "armed"

\* C23: across a client's whole life its destroy path runs at most once: a
\* client destroyed explicitly is not destroyed again by a later signal or
\* exit event, the exit that follows a signal handler does not run destroy()
\* again, and the process identity is released once only.
C23_DestroyPathRunsOnce ==
    /\ destroyCalls <= 1
    /\ releases <= 1
    /\ ~pidHeld => releases = 1

TypeOK ==
    /\ state \in {"None", "Created", "Started", "Stopped", "Destroyed"}
    /\ handlers \in 0 .. MaxStarts
    /\ resolvers \subseteq (Ids \X Calls)

====
